---- MODULE Spec2Model ----
(***************************************************************************)
(* Option<T> and Result<T, E> of kherge/js.result as a heap of container   *)
(* objects.  Every method of Some, None, Ok and Err is one action; the     *)
(* action records the call (receiver, arguments, callback invocations,     *)
(* returned reference or value, raised error) next to the heap it ran on.  *)
(***************************************************************************)
EXTENDS Integers, Sequences, FiniteSets, TLC

VARIABLES options, results, call

vars == <<options, results, call>>

---------------------------------------------------------------------------
(* Bounds *)

\* Number of container objects (options and results together) on the heap.
MaxObjs == 3

---------------------------------------------------------------------------
(* JavaScript values *)

\* Scalar values handed to the library by the caller: a falsy number and the
\* null value.
Atoms == {"0", "null"}

\* A scalar is a 1-tuple, the array built by zip is a 2-tuple of values.
Val(a) == <<a>>

Pair(x, y) == <<x, y>>

AtomValues == {Val(a) : a \in Atoms}

\* The value of a property that was never assigned.
Undefined == Val("undefined")

\* An instance of the built-in Error class.
ErrorObj == Val("Error")

\* No value at all (an absent argument, a call that returned a reference).
NoVal == <<>>

\* Messages the caller passes to expect().
Messages == {"error"}

\* What a callback of the caller may raise.
Thrown == {ErrorObj}

---------------------------------------------------------------------------
(* Objects *)

\* Faulty variant: the constructor keeps only a value that is not null.
NewSomeDropsNull(value) ==
  [proto |-> "Some",
   value |-> IF value = Val("null") THEN Undefined ELSE value]

NewSome(value) == [proto |-> "Some", value |-> value]

NewNone == [proto |-> "None", value |-> Undefined]

NewOk(value) == [proto |-> "Ok", value |-> value]

NewErr(value) == [proto |-> "Err", value |-> value]

Opts == DOMAIN options

Ress == DOMAIN results

\* A further object fits on the heap.
Room == Len(options) + Len(results) < MaxObjs

\* The reference the next allocated option / result gets.
NextOpt == Len(options) + 1

NextRes == Len(results) + 1

---------------------------------------------------------------------------
(* What a call hands back *)

RetOpt(ref) == [kind |-> "opt", ref |-> ref, val |-> NoVal, bool |-> FALSE,
                err |-> "", msg |-> ""]

RetRes(ref) == [kind |-> "res", ref |-> ref, val |-> NoVal, bool |-> FALSE,
                err |-> "", msg |-> ""]

RetVal(v) == [kind |-> "val", ref |-> 0, val |-> v, bool |-> FALSE,
              err |-> "", msg |-> ""]

RetBool(b) == [kind |-> "bool", ref |-> 0, val |-> NoVal, bool |-> b,
               err |-> "", msg |-> ""]

\* throw new <err>(msg)
Throw(err, msg) == [kind |-> "throw", ref |-> 0, val |-> NoVal, bool |-> FALSE,
                    err |-> err, msg |-> msg]

\* A value raised by a callback leaves the method as it is.
Rethrow(x) == [kind |-> "throw", ref |-> 0, val |-> x, bool |-> FALSE,
               err |-> "thrown", msg |-> ""]

NoRet == [kind |-> "void", ref |-> 0, val |-> NoVal, bool |-> FALSE,
          err |-> "", msg |-> ""]

\* One invocation of a callback: the parameter it was passed as, the
\* argument list it received and how it ended (see the outcomes below).
Invoke(cb, args, out) == [cb |-> cb, args |-> args, out |-> out]

\* Outcome of one run of a callback that yields a value / a boolean / an
\* option / a result: it returns, or it raises.
ValOutcomes == [t : {"ret"}, v : AtomValues, r : {0}, b : {FALSE}]
                 \cup [t : {"throw"}, v : Thrown, r : {0}, b : {FALSE}]

BoolOutcomes == [t : {"ret"}, v : {NoVal}, r : {0}, b : BOOLEAN]
                  \cup [t : {"throw"}, v : Thrown, r : {0}, b : {FALSE}]

OptOutcomes == [t : {"ret"}, v : {NoVal}, r : Opts, b : {FALSE}]
                 \cup [t : {"throw"}, v : Thrown, r : {0}, b : {FALSE}]

ResOutcomes == [t : {"ret"}, v : {NoVal}, r : Ress, b : {FALSE}]
                 \cup [t : {"throw"}, v : Thrown, r : {0}, b : {FALSE}]

\* The record of a call: operation, class of the receiver when the call
\* began, receiver, reference argument, value argument, message argument,
\* callbacks invoked in order, outcome, and the heap the call began on.
Call(op, cls, recv, arg, argv, msg, cbs, ret) ==
  [op |-> op, cls |-> cls, recv |-> recv, arg |-> arg, argv |-> argv,
   msg |-> msg, cbs |-> cbs, ret |-> ret, pre |-> options, preRes |-> results]

\* The call returns without touching the heap.
Pure(c) ==
  /\ call' = c
  /\ UNCHANGED <<options, results>>

\* The call allocates one option / one result and leaves the rest alone.
AllocOpt(c, obj) ==
  /\ Room
  /\ options' = Append(options, obj)
  /\ call' = c
  /\ UNCHANGED results

AllocRes(c, obj) ==
  /\ Room
  /\ results' = Append(results, obj)
  /\ call' = c
  /\ UNCHANGED options

---------------------------------------------------------------------------
(* Initial state: no container exists, nothing was called. *)

Init ==
  /\ options = <<>>
  /\ results = <<>>
  /\ call = [op |-> "init", cls |-> "", recv |-> 0, arg |-> 0, argv |-> NoVal,
             msg |-> "", cbs |-> <<>>, ret |-> NoRet, pre |-> <<>>,
             preRes |-> <<>>]

---------------------------------------------------------------------------
(* Constructors *)

\* none()
none ==
  AllocOpt(Call("none", "", 0, 0, NoVal, "", <<>>, RetOpt(NextOpt)), NewNone)

\* some(value)
some(value) ==
  AllocOpt(Call("some", "", 0, 0, value, "", <<>>, RetOpt(NextOpt)),
           NewSome(value))

\* ok(value)
ok(value) ==
  AllocRes(Call("ok", "", 0, 0, value, "", <<>>, RetRes(NextRes)),
           NewOk(value))

\* err(value)
err(value) ==
  AllocRes(Call("err", "", 0, 0, value, "", <<>>, RetRes(NextRes)),
           NewErr(value))

\* value == null: true of null and of undefined, of no other value.
LooseEqualsNull(value) == value \in {Val("null"), Undefined}

\* value === undefined
StrictEqualsUndefined(value) == value = Undefined

\* !value: the falsy values null, undefined, 0, '', false and NaN.
Falsy(value) ==
  value \in {Val("null"), Undefined, Val("0"), Val(""), Val("false"),
             Val("NaN")}

\* Faulty variant: maybe tests the value for truthiness (if (!value)).
maybeDropsFalsy(value) ==
  IF Falsy(value)
  THEN AllocOpt(Call("maybe", "", 0, 0, value, "", <<>>, RetOpt(NextOpt)),
                NewNone)
  ELSE AllocOpt(Call("maybe", "", 0, 0, value, "", <<>>, RetOpt(NextOpt)),
                NewSome(value))

\* maybe(value):
\* if (value == null || value === undefined) return none(); return some(value);
maybe(value) ==
  IF LooseEqualsNull(value) \/ StrictEqualsUndefined(value)
  THEN AllocOpt(Call("maybe", "", 0, 0, value, "", <<>>, RetOpt(NextOpt)),
                NewNone)
  ELSE AllocOpt(Call("maybe", "", 0, 0, value, "", <<>>, RetOpt(NextOpt)),
                NewSome(value))

---------------------------------------------------------------------------
(* Dynamic dispatch of the discriminants *)

SomeIsNone == FALSE

SomeIsSome == TRUE

NoneIsNone == TRUE

\* Faulty variant: None.isSome answers like Some.isSome.
NoneIsSomeTrue == TRUE

NoneIsSome == FALSE

\* o.isNone() / o.isSome() on the heap h, through the prototype of o.
IsNoneIn(h, o) == IF h[o].proto = "Some" THEN SomeIsNone ELSE NoneIsNone

IsSomeIn(h, o) == IF h[o].proto = "Some" THEN SomeIsSome ELSE NoneIsSome

isNone(o) == IsNoneIn(options, o)

isSome(o) == IsSomeIn(options, o)

\* Some.unwrap: return this.value
SomeUnwrapRet(h, o) == RetVal(h[o].value)

\* None.unwrap: throw new OptionError('No value to unwrap.')
NoneUnwrapRet == Throw("OptionError", "No value to unwrap.")

\* o.unwrap() on the heap h, through the prototype of o.
UnwrapIn(h, o) ==
  IF h[o].proto = "Some" THEN SomeUnwrapRet(h, o) ELSE NoneUnwrapRet

\* A callback known at one argument only: the function that returns ret
\* when it is given arg.
Returning(arg, ret) == [x \in {arg} |-> ret]

\* Faulty variant: map turns a null returned by fn into an absent value.
SomeMapNewDropsNull(h, o, fn) ==
  IF fn[h[o].value] = Val("null") THEN NewNone ELSE NewSome(fn[h[o].value])

\* Some.map: new Some(fn(this.value))
SomeMapNew(h, o, fn) == NewSome(fn[h[o].value])

\* None.map: new None()
NoneMapNew == NewNone

\* The object o.map(fn) builds on the heap h, through the prototype of o.
MapIn(h, o, fn) ==
  IF h[o].proto = "Some" THEN SomeMapNew(h, o, fn) ELSE NoneMapNew

\* Some.okOr: ok(this.value)
SomeOkOrNew(h, o) == NewOk(h[o].value)

\* Some.okOrElse: ok(this.value)
SomeOkOrElseNew(h, o) == NewOk(h[o].value)

\* None.okOr: err(error)
NoneOkOrNew(error) == NewErr(error)

\* None.okOrElse: err(error()), produced being what error() returned
NoneOkOrElseNew(produced) == NewErr(produced)

\* The object o.okOr(error) builds on the heap h.
OkOrIn(h, o, error) ==
  IF h[o].proto = "Some" THEN SomeOkOrNew(h, o) ELSE NoneOkOrNew(error)

\* The object o.okOrElse(() => produced) builds on the heap h.
OkOrElseIn(h, o, produced) ==
  IF h[o].proto = "Some" THEN SomeOkOrElseNew(h, o)
                         ELSE NoneOkOrElseNew(produced)

\* Ok.map: new Ok(fn(this.value))
OkMapNew(h, r, fn) == NewOk(fn[h[r].value])

\* Faulty variant: Err.map builds its Err without the error (new Err()).
ErrMapNewForgetsError(h, r) == NewErr(Undefined)

\* Err.map: new Err(this.value)
ErrMapNew(h, r) == NewErr(h[r].value)

\* The object r.map(fn) builds on the heap h of results.
ResultMapIn(h, r, fn) ==
  IF h[r].proto = "Ok" THEN OkMapNew(h, r, fn) ELSE ErrMapNew(h, r)

\* Ok.ok: some(this.value)
OkOkNew(h, r) == NewSome(h[r].value)

\* Err.ok: none()
ErrOkNew == NewNone

\* Ok.err: none()
OkErrNew == NewNone

\* Faulty variant: Err.err answers as Ok.err does.
ErrErrReturnsNone(h, r) == NewNone

\* Err.err: some(this.value)
ErrErrNew(h, r) == NewSome(h[r].value)

\* The object r.ok() builds on the heap h of results.
ResultOkIn(h, r) == IF h[r].proto = "Ok" THEN OkOkNew(h, r) ELSE ErrOkNew

\* The object r.err() builds on the heap h of results.
ResultErrIn(h, r) == IF h[r].proto = "Ok" THEN OkErrNew ELSE ErrErrNew(h, r)

\* Some.getOrInsert: return this.value
SomeGetOrInsertRet(h, o) == RetVal(h[o].value)

\* None.getOrInsert: return value
NoneGetOrInsertRet(value) == RetVal(value)

\* What o.getOrInsert(value) returns on the heap h, through the prototype of
\* o.
GetOrInsertIn(h, o, value) ==
  IF h[o].proto = "Some" THEN SomeGetOrInsertRet(h, o)
                         ELSE NoneGetOrInsertRet(value)

---------------------------------------------------------------------------
(* class Some *)

IsA(o, proto) == o \in Opts /\ options[o].proto = proto

\* The callback's value is raised again by the method, or handed to `then`.
OnOutcome(out, then) == IF out.t = "throw" THEN Rethrow(out.v) ELSE then

SomeAnd(o, other) ==
  /\ IsA(o, "Some") /\ other \in Opts
  /\ Pure(Call("and", "Some", o, other, NoVal, "", <<>>, RetOpt(other)))

SomeAndThen(o, out) ==
  /\ IsA(o, "Some") /\ out \in OptOutcomes
  /\ Pure(Call("andThen", "Some", o, 0, NoVal, "",
               <<Invoke("fn", <<options[o].value>>, out)>>,
               OnOutcome(out, RetOpt(out.r))))

SomeExpect(o, message) ==
  /\ IsA(o, "Some")
  /\ Pure(Call("expect", "Some", o, 0, NoVal, message, <<>>,
               RetVal(options[o].value)))

\* Faulty variant: filter answers with a copy of the receiver when the
\* predicate holds (return new Some(this.value)).
SomeFilterCopies(o, out) ==
  /\ IsA(o, "Some") /\ out \in BoolOutcomes
  /\ LET cbs == <<Invoke("predicate", <<options[o].value>>, out)>>
     IN  IF out.t = "throw"
         THEN Pure(Call("filter", "Some", o, 0, NoVal, "", cbs, Rethrow(out.v)))
         ELSE AllocOpt(Call("filter", "Some", o, 0, NoVal, "", cbs,
                            RetOpt(NextOpt)),
                       IF out.b THEN NewSome(options[o].value) ELSE NewNone)

\* Faulty variant: filter empties the receiver in place when the predicate
\* fails, and returns it.
SomeFilterClearsReceiver(o, out) ==
  /\ IsA(o, "Some") /\ out \in BoolOutcomes
  /\ LET cbs == <<Invoke("predicate", <<options[o].value>>, out)>>
     IN  IF out.t = "throw"
         THEN Pure(Call("filter", "Some", o, 0, NoVal, "", cbs, Rethrow(out.v)))
         ELSE IF out.b
         THEN Pure(Call("filter", "Some", o, 0, NoVal, "", cbs, RetOpt(o)))
         ELSE /\ options' = [options EXCEPT ![o] = NewNone]
              /\ call' = Call("filter", "Some", o, 0, NoVal, "", cbs, RetOpt(o))
              /\ UNCHANGED results

SomeFilter(o, out) ==
  /\ IsA(o, "Some") /\ out \in BoolOutcomes
  /\ LET cbs == <<Invoke("predicate", <<options[o].value>>, out)>>
     IN  IF out.t = "throw"
         THEN Pure(Call("filter", "Some", o, 0, NoVal, "", cbs, Rethrow(out.v)))
         ELSE IF out.b
         THEN Pure(Call("filter", "Some", o, 0, NoVal, "", cbs, RetOpt(o)))
         ELSE AllocOpt(Call("filter", "Some", o, 0, NoVal, "", cbs,
                            RetOpt(NextOpt)), NewNone)

SomeGetOrInsert(o, value) ==
  /\ IsA(o, "Some")
  /\ Pure(Call("getOrInsert", "Some", o, 0, value, "", <<>>,
               SomeGetOrInsertRet(options, o)))

SomeGetOrInsertWith(o) ==
  /\ IsA(o, "Some")
  /\ Pure(Call("getOrInsertWith", "Some", o, 0, NoVal, "", <<>>,
               RetVal(options[o].value)))

SomeIsNoneCall(o) ==
  /\ IsA(o, "Some")
  /\ Pure(Call("isNone", "Some", o, 0, NoVal, "", <<>>, RetBool(SomeIsNone)))

SomeIsSomeCall(o) ==
  /\ IsA(o, "Some")
  /\ Pure(Call("isSome", "Some", o, 0, NoVal, "", <<>>, RetBool(SomeIsSome)))

\* Faulty variant: map writes the mapped value through `this` and returns
\* the receiver.
SomeMapInPlace(o, out) ==
  /\ IsA(o, "Some") /\ out \in ValOutcomes
  /\ LET cbs == <<Invoke("fn", <<options[o].value>>, out)>>
     IN  IF out.t = "throw"
         THEN Pure(Call("map", "Some", o, 0, NoVal, "", cbs, Rethrow(out.v)))
         ELSE /\ options' = [options EXCEPT ![o].value = out.v]
              /\ call' = Call("map", "Some", o, 0, NoVal, "", cbs, RetOpt(o))
              /\ UNCHANGED results

SomeMap(o, out) ==
  /\ IsA(o, "Some") /\ out \in ValOutcomes
  /\ LET cbs == <<Invoke("fn", <<options[o].value>>, out)>>
     IN  IF out.t = "throw"
         THEN Pure(Call("map", "Some", o, 0, NoVal, "", cbs, Rethrow(out.v)))
         ELSE AllocOpt(Call("map", "Some", o, 0, NoVal, "", cbs,
                            RetOpt(NextOpt)), SomeMapNew(options, o, Returning(options[o].value, out.v)))

SomeMapOr(o, def, out) ==
  /\ IsA(o, "Some") /\ out \in ValOutcomes
  /\ Pure(Call("mapOr", "Some", o, 0, def, "",
               <<Invoke("fn", <<options[o].value>>, out)>>,
               OnOutcome(out, RetVal(out.v))))

SomeMapOrElse(o, out) ==
  /\ IsA(o, "Some") /\ out \in ValOutcomes
  /\ Pure(Call("mapOrElse", "Some", o, 0, NoVal, "",
               <<Invoke("fn", <<options[o].value>>, out)>>,
               OnOutcome(out, RetVal(out.v))))

SomeOkOr(o, error) ==
  /\ IsA(o, "Some")
  /\ AllocRes(Call("okOr", "Some", o, 0, error, "", <<>>, RetRes(NextRes)),
              SomeOkOrNew(options, o))

SomeOkOrElse(o) ==
  /\ IsA(o, "Some")
  /\ AllocRes(Call("okOrElse", "Some", o, 0, NoVal, "", <<>>, RetRes(NextRes)),
              SomeOkOrElseNew(options, o))

\* Faulty variant: Some.or answers as None.or does (return other).
SomeOrReturnsOther(o, other) ==
  /\ IsA(o, "Some") /\ other \in Opts
  /\ Pure(Call("or", "Some", o, other, NoVal, "", <<>>, RetOpt(other)))

SomeOr(o, other) ==
  /\ IsA(o, "Some") /\ other \in Opts
  /\ Pure(Call("or", "Some", o, other, NoVal, "", <<>>, RetOpt(o)))

\* Faulty variant: Some.orElse runs the producer and drops what it returns.
SomeOrElseCallsFn(o) ==
  /\ IsA(o, "Some")
  /\ Pure(Call("orElse", "Some", o, 0, NoVal, "",
               <<Invoke("fn", <<>>,
                        [t |-> "ret", v |-> NoVal, r |-> o, b |-> FALSE])>>,
               RetOpt(o)))

\* Faulty variant: Some.orElse answers with a copy of the receiver
\* (return new Some(this.value)).
SomeOrElseCopies(o) ==
  /\ IsA(o, "Some")
  /\ AllocOpt(Call("orElse", "Some", o, 0, NoVal, "", <<>>, RetOpt(NextOpt)),
              NewSome(options[o].value))

SomeOrElse(o) ==
  /\ IsA(o, "Some")
  /\ Pure(Call("orElse", "Some", o, 0, NoVal, "", <<>>, RetOpt(o)))

\* Faulty variant: replace keeps a reference in the place of a copy
\* (const old = this; this.value = value; return old).
SomeReplaceReturnsThis(o, value) ==
  /\ IsA(o, "Some")
  /\ options' = [options EXCEPT ![o].value = value]
  /\ call' = Call("replace", "Some", o, 0, value, "", <<>>, RetOpt(o))
  /\ UNCHANGED results

\* const old = new Some(this.value); this.value = value; return old;
SomeReplace(o, value) ==
  /\ IsA(o, "Some")
  /\ Room
  /\ options' = Append([options EXCEPT ![o].value = value],
                       NewSome(options[o].value))
  /\ call' = Call("replace", "Some", o, 0, value, "", <<>>, RetOpt(NextOpt))
  /\ UNCHANGED results

SomeUnwrap(o) ==
  /\ IsA(o, "Some")
  /\ Pure(Call("unwrap", "Some", o, 0, NoVal, "", <<>>,
               SomeUnwrapRet(options, o)))

SomeUnwrapOr(o, def) ==
  /\ IsA(o, "Some")
  /\ Pure(Call("unwrapOr", "Some", o, 0, def, "", <<>>,
               RetVal(options[o].value)))

SomeUnwrapOrElse(o) ==
  /\ IsA(o, "Some")
  /\ Pure(Call("unwrapOrElse", "Some", o, 0, NoVal, "", <<>>,
               RetVal(options[o].value)))

SomeXor(o, other) ==
  /\ IsA(o, "Some") /\ other \in Opts
  /\ IF isNone(other)
     THEN Pure(Call("xor", "Some", o, other, NoVal, "", <<>>, RetOpt(o)))
     ELSE AllocOpt(Call("xor", "Some", o, other, NoVal, "", <<>>,
                        RetOpt(NextOpt)), NewNone)

\* Faulty variant: zip pairs the two values in the reverse order.
SomeZipSwapped(o, other) ==
  /\ IsA(o, "Some") /\ other \in Opts
  /\ IF isSome(other)
     THEN AllocOpt(Call("zip", "Some", o, other, NoVal, "", <<>>,
                        RetOpt(NextOpt)),
                   NewSome(Pair(UnwrapIn(options, other).val,
                                options[o].value)))
     ELSE AllocOpt(Call("zip", "Some", o, other, NoVal, "", <<>>,
                        RetOpt(NextOpt)), NewNone)

\* return new Some([this.value, other.unwrap()]) when other.isSome()
SomeZip(o, other) ==
  /\ IsA(o, "Some") /\ other \in Opts
  /\ IF isSome(other)
     THEN AllocOpt(Call("zip", "Some", o, other, NoVal, "", <<>>,
                        RetOpt(NextOpt)),
                   NewSome(Pair(options[o].value,
                                UnwrapIn(options, other).val)))
     ELSE AllocOpt(Call("zip", "Some", o, other, NoVal, "", <<>>,
                        RetOpt(NextOpt)), NewNone)

---------------------------------------------------------------------------
(* class None *)

\* Faulty variant: the value is stored but the prototype stays None.prototype.
SetValueOnly(h, o, value) ==
  [h EXCEPT ![o] = [proto |-> h[o].proto, value |-> value]]

\* Object.setPrototypeOf(this, Some.prototype).value = value, on the heap h.
SetPrototypeAndValue(h, o, value) ==
  [h EXCEPT ![o] = [proto |-> "Some", value |-> value]]

\* Faulty variant: None.and answers with the receiver (return this).
NoneAndReturnsThis(o, other) ==
  /\ IsA(o, "None") /\ other \in Opts
  /\ Pure(Call("and", "None", o, other, NoVal, "", <<>>, RetOpt(o)))

NoneAnd(o, other) ==
  /\ IsA(o, "None") /\ other \in Opts
  /\ AllocOpt(Call("and", "None", o, other, NoVal, "", <<>>, RetOpt(NextOpt)),
              NewNone)

NoneAndThen(o) ==
  /\ IsA(o, "None")
  /\ AllocOpt(Call("andThen", "None", o, 0, NoVal, "", <<>>, RetOpt(NextOpt)),
              NewNone)

NoneExpect(o, message) ==
  /\ IsA(o, "None")
  /\ Pure(Call("expect", "None", o, 0, NoVal, message, <<>>,
               Throw("OptionError", message)))

NoneFilter(o) ==
  /\ IsA(o, "None")
  /\ AllocOpt(Call("filter", "None", o, 0, NoVal, "", <<>>, RetOpt(NextOpt)),
              NewNone)

\* Faulty variant: getOrInsert returns the value without storing it.
NoneGetOrInsertNoStore(o, value) ==
  /\ IsA(o, "None")
  /\ Pure(Call("getOrInsert", "None", o, 0, value, "", <<>>,
               NoneGetOrInsertRet(value)))

\* this.replace(value); return value;  The None that replace returns is
\* dropped at once and never referenced.
NoneGetOrInsert(o, value) ==
  /\ IsA(o, "None")
  /\ options' = SetPrototypeAndValue(options, o, value)
  /\ call' = Call("getOrInsert", "None", o, 0, value, "", <<>>,
                  NoneGetOrInsertRet(value))
  /\ UNCHANGED results

\* Faulty variant: the receiver is converted before fn is invoked
\* (this.replace(undefined) first, the produced value stored afterwards).
NoneGetOrInsertWithConvertsFirst(o, out) ==
  /\ IsA(o, "None") /\ out \in ValOutcomes
  /\ options' = SetPrototypeAndValue(options, o,
                                     IF out.t = "throw" THEN Undefined
                                     ELSE out.v)
  /\ call' = Call("getOrInsertWith", "None", o, 0, NoVal, "",
                  <<Invoke("fn", <<>>, out)>>, OnOutcome(out, RetVal(out.v)))
  /\ UNCHANGED results

\* const value = fn(); this.replace(value); return value;
NoneGetOrInsertWith(o, out) ==
  /\ IsA(o, "None") /\ out \in ValOutcomes
  /\ options' = IF out.t = "throw" THEN options
                ELSE SetPrototypeAndValue(options, o, out.v)
  /\ call' = Call("getOrInsertWith", "None", o, 0, NoVal, "",
                  <<Invoke("fn", <<>>, out)>>, OnOutcome(out, RetVal(out.v)))
  /\ UNCHANGED results

NoneIsNoneCall(o) ==
  /\ IsA(o, "None")
  /\ Pure(Call("isNone", "None", o, 0, NoVal, "", <<>>, RetBool(NoneIsNone)))

NoneIsSomeCall(o) ==
  /\ IsA(o, "None")
  /\ Pure(Call("isSome", "None", o, 0, NoVal, "", <<>>, RetBool(NoneIsSome)))

\* Faulty variant: None.map runs the mapper on the absent value.
NoneMapCallsFn(o) ==
  /\ IsA(o, "None")
  /\ AllocOpt(Call("map", "None", o, 0, NoVal, "",
                   <<Invoke("fn", <<options[o].value>>,
                            [t |-> "ret", v |-> Undefined, r |-> 0,
                             b |-> FALSE])>>,
                   RetOpt(NextOpt)), NewSome(Undefined))

NoneMap(o) ==
  /\ IsA(o, "None")
  /\ AllocOpt(Call("map", "None", o, 0, NoVal, "", <<>>, RetOpt(NextOpt)),
              NoneMapNew)

NoneMapOr(o, def) ==
  /\ IsA(o, "None")
  /\ Pure(Call("mapOr", "None", o, 0, def, "", <<>>, RetVal(def)))

NoneMapOrElse(o, out) ==
  /\ IsA(o, "None") /\ out \in ValOutcomes
  /\ Pure(Call("mapOrElse", "None", o, 0, NoVal, "", <<Invoke("def", <<>>, out)>>,
               OnOutcome(out, RetVal(out.v))))

NoneOkOr(o, error) ==
  /\ IsA(o, "None")
  /\ AllocRes(Call("okOr", "None", o, 0, error, "", <<>>, RetRes(NextRes)),
              NoneOkOrNew(error))

NoneOkOrElse(o, out) ==
  /\ IsA(o, "None") /\ out \in ValOutcomes
  /\ LET cbs == <<Invoke("error", <<>>, out)>>
     IN  IF out.t = "throw"
         THEN Pure(Call("okOrElse", "None", o, 0, NoVal, "", cbs,
                        Rethrow(out.v)))
         ELSE AllocRes(Call("okOrElse", "None", o, 0, NoVal, "", cbs,
                            RetRes(NextRes)), NoneOkOrElseNew(out.v))

NoneOr(o, other) ==
  /\ IsA(o, "None") /\ other \in Opts
  /\ Pure(Call("or", "None", o, other, NoVal, "", <<>>, RetOpt(other)))

NoneOrElse(o, out) ==
  /\ IsA(o, "None") /\ out \in OptOutcomes
  /\ Pure(Call("orElse", "None", o, 0, NoVal, "", <<Invoke("fn", <<>>, out)>>,
               OnOutcome(out, RetOpt(out.r))))

\* Object.setPrototypeOf(this, Some.prototype).value = value;
\* return new None();
NoneReplace(o, value) ==
  /\ IsA(o, "None")
  /\ Room
  /\ options' = Append(SetPrototypeAndValue(options, o, value), NewNone)
  /\ call' = Call("replace", "None", o, 0, value, "", <<>>, RetOpt(NextOpt))
  /\ UNCHANGED results

NoneUnwrap(o) ==
  /\ IsA(o, "None")
  /\ Pure(Call("unwrap", "None", o, 0, NoVal, "", <<>>, NoneUnwrapRet))

\* Faulty variant: None.unwrapOr raises like None.unwrap.
NoneUnwrapOrThrows(o, def) ==
  /\ IsA(o, "None")
  /\ Pure(Call("unwrapOr", "None", o, 0, def, "", <<>>, NoneUnwrapRet))

NoneUnwrapOr(o, def) ==
  /\ IsA(o, "None")
  /\ Pure(Call("unwrapOr", "None", o, 0, def, "", <<>>, RetVal(def)))

NoneUnwrapOrElse(o, out) ==
  /\ IsA(o, "None") /\ out \in ValOutcomes
  /\ Pure(Call("unwrapOrElse", "None", o, 0, NoVal, "", <<Invoke("fn", <<>>, out)>>,
               OnOutcome(out, RetVal(out.v))))

\* Faulty variant: None.xor answers with the receiver when other is None too.
NoneXorReturnsThis(o, other) ==
  /\ IsA(o, "None") /\ other \in Opts
  /\ Pure(Call("xor", "None", o, other, NoVal, "", <<>>,
               RetOpt(IF isSome(other) THEN other ELSE o)))

NoneXor(o, other) ==
  /\ IsA(o, "None") /\ other \in Opts
  /\ IF isSome(other)
     THEN Pure(Call("xor", "None", o, other, NoVal, "", <<>>, RetOpt(other)))
     ELSE AllocOpt(Call("xor", "None", o, other, NoVal, "", <<>>,
                        RetOpt(NextOpt)), NewNone)

NoneZip(o, other) ==
  /\ IsA(o, "None") /\ other \in Opts
  /\ AllocOpt(Call("zip", "None", o, other, NoVal, "", <<>>, RetOpt(NextOpt)),
              NewNone)

---------------------------------------------------------------------------
(* Rendering of an error payload *)

\* typeof value
TypeOf(v) ==
  IF Len(v) = 2 THEN "object"
  ELSE CASE v[1] = "0" -> "number"
         [] v[1] = "a" -> "string"
         [] v[1] = "true" -> "boolean"
         [] v[1] = "undefined" -> "undefined"
         [] v[1] = "function" -> "function"
         [] v[1] = "symbol" -> "symbol"
         [] OTHER -> "object"

RECURSIVE JSONStringify(_)
\* JSON.stringify(value), for a value that is an element of an array (where
\* undefined, functions and symbols are written as null).
JSONStringify(v) ==
  IF Len(v) = 2
  THEN "[" \o JSONStringify(v[1]) \o "," \o JSONStringify(v[2]) \o "]"
  ELSE CASE v[1] = "0" -> "0"
         [] v[1] = "a" -> "\"a\""
         [] v[1] = "true" -> "true"
         [] v[1] = "Error" -> "{}"
         [] OTHER -> "null"

\* String(value) of a primitive value.
StringOf(v) ==
  CASE v = Val("0") -> "0"
    [] v = Val("a") -> "a"
    [] v = Val("true") -> "true"
    [] v = Val("null") -> "null"
    [] v = Undefined -> "undefined"

\* The message an Error built from `message` carries: the string conversion
\* of the argument, and the empty default message when it is undefined.
ErrorMessage(message) ==
  IF message = Undefined THEN "" ELSE StringOf(message)

\* The switch of Err.unwrap
UnwrapMessage(value) ==
  CASE TypeOf(value) = "function" -> "[Function]"
    [] TypeOf(value) = "object" -> JSONStringify(value)
    [] TypeOf(value) = "symbol" -> "[Symbol]"
    [] OTHER -> ErrorMessage(value)

---------------------------------------------------------------------------
(* class Err *)

IsR(r, proto) == r \in Ress /\ results[r].proto = proto

\* Faulty variant: Err.and returns the receiver itself.
ErrAndReturnsThis(r, other) ==
  /\ IsR(r, "Err") /\ other \in Ress
  /\ Pure(Call("and", "Err", r, other, NoVal, "", <<>>, RetRes(r)))

ErrAnd(r, other) ==
  /\ IsR(r, "Err") /\ other \in Ress
  /\ AllocRes(Call("and", "Err", r, other, NoVal, "", <<>>, RetRes(NextRes)),
              NewErr(results[r].value))

ErrAndThen(r) ==
  /\ IsR(r, "Err")
  /\ AllocRes(Call("andThen", "Err", r, 0, NoVal, "", <<>>, RetRes(NextRes)),
              NewErr(results[r].value))

ErrErr(r) ==
  /\ IsR(r, "Err")
  /\ AllocOpt(Call("err", "Err", r, 0, NoVal, "", <<>>, RetOpt(NextOpt)),
              ErrErrNew(results, r))

ErrExpect(r, error) ==
  /\ IsR(r, "Err")
  /\ Pure(Call("expect", "Err", r, 0, NoVal, error, <<>>,
               Throw("ResultError", error)))

ErrExpectErr(r, error) ==
  /\ IsR(r, "Err")
  /\ Pure(Call("expectErr", "Err", r, 0, NoVal, error, <<>>,
               RetVal(results[r].value)))

ErrIsErr == TRUE

ErrIsOk == FALSE

ErrIsErrCall(r) ==
  /\ IsR(r, "Err")
  /\ Pure(Call("isErr", "Err", r, 0, NoVal, "", <<>>, RetBool(ErrIsErr)))

ErrIsOkCall(r) ==
  /\ IsR(r, "Err")
  /\ Pure(Call("isOk", "Err", r, 0, NoVal, "", <<>>, RetBool(ErrIsOk)))

ErrMap(r) ==
  /\ IsR(r, "Err")
  /\ AllocRes(Call("map", "Err", r, 0, NoVal, "", <<>>, RetRes(NextRes)),
              ErrMapNew(results, r))

\* Err.mapErr that invokes fn and then keeps the error it held.
ErrMapErrKeepsError(r, out) ==
  /\ IsR(r, "Err") /\ out \in ValOutcomes
  /\ LET cbs == <<Invoke("fn", <<results[r].value>>, out)>>
     IN  IF out.t = "throw"
         THEN Pure(Call("mapErr", "Err", r, 0, NoVal, "", cbs, Rethrow(out.v)))
         ELSE AllocRes(Call("mapErr", "Err", r, 0, NoVal, "", cbs,
                            RetRes(NextRes)), NewErr(results[r].value))

ErrMapErr(r, out) ==
  /\ IsR(r, "Err") /\ out \in ValOutcomes
  /\ LET cbs == <<Invoke("fn", <<results[r].value>>, out)>>
     IN  IF out.t = "throw"
         THEN Pure(Call("mapErr", "Err", r, 0, NoVal, "", cbs, Rethrow(out.v)))
         ELSE AllocRes(Call("mapErr", "Err", r, 0, NoVal, "", cbs,
                            RetRes(NextRes)), NewErr(out.v))

ErrMapOr(r, def) ==
  /\ IsR(r, "Err")
  /\ Pure(Call("mapOr", "Err", r, 0, def, "", <<>>, RetVal(def)))

\* Faulty variant: Err.mapOrElse calls def() without the error.
ErrMapOrElseNoArg(r, out) ==
  /\ IsR(r, "Err") /\ out \in ValOutcomes
  /\ Pure(Call("mapOrElse", "Err", r, 0, NoVal, "",
               <<Invoke("def", <<>>, out)>>, OnOutcome(out, RetVal(out.v))))

ErrMapOrElse(r, out) ==
  /\ IsR(r, "Err") /\ out \in ValOutcomes
  /\ Pure(Call("mapOrElse", "Err", r, 0, NoVal, "",
               <<Invoke("def", <<results[r].value>>, out)>>,
               OnOutcome(out, RetVal(out.v))))

ErrOk(r) ==
  /\ IsR(r, "Err")
  /\ AllocOpt(Call("ok", "Err", r, 0, NoVal, "", <<>>, RetOpt(NextOpt)),
              ErrOkNew)

ErrOr(r, def) ==
  /\ IsR(r, "Err") /\ def \in Ress
  /\ Pure(Call("or", "Err", r, def, NoVal, "", <<>>, RetRes(def)))

ErrOrElse(r, out) ==
  /\ IsR(r, "Err") /\ out \in ResOutcomes
  /\ Pure(Call("orElse", "Err", r, 0, NoVal, "",
               <<Invoke("def", <<results[r].value>>, out)>>,
               OnOutcome(out, RetRes(out.r))))

ErrUnwrap(r) ==
  /\ IsR(r, "Err")
  /\ Pure(Call("unwrap", "Err", r, 0, NoVal, "", <<>>,
               Throw("ResultError", UnwrapMessage(results[r].value))))

ErrUnwrapErr(r) ==
  /\ IsR(r, "Err")
  /\ Pure(Call("unwrapErr", "Err", r, 0, NoVal, "", <<>>,
               RetVal(results[r].value)))

ErrUnwrapOr(r, def) ==
  /\ IsR(r, "Err")
  /\ Pure(Call("unwrapOr", "Err", r, 0, def, "", <<>>, RetVal(def)))

ErrUnwrapOrElse(r, out) ==
  /\ IsR(r, "Err") /\ out \in ValOutcomes
  /\ Pure(Call("unwrapOrElse", "Err", r, 0, NoVal, "",
               <<Invoke("def", <<results[r].value>>, out)>>,
               OnOutcome(out, RetVal(out.v))))

---------------------------------------------------------------------------
(* class Ok *)

OkAnd(r, other) ==
  /\ IsR(r, "Ok") /\ other \in Ress
  /\ Pure(Call("and", "Ok", r, other, NoVal, "", <<>>, RetRes(other)))

OkAndThen(r, out) ==
  /\ IsR(r, "Ok") /\ out \in ResOutcomes
  /\ Pure(Call("andThen", "Ok", r, 0, NoVal, "",
               <<Invoke("other", <<results[r].value>>, out)>>,
               OnOutcome(out, RetRes(out.r))))

OkErr(r) ==
  /\ IsR(r, "Ok")
  /\ AllocOpt(Call("err", "Ok", r, 0, NoVal, "", <<>>, RetOpt(NextOpt)),
              OkErrNew)

OkExpect(r, error) ==
  /\ IsR(r, "Ok")
  /\ Pure(Call("expect", "Ok", r, 0, NoVal, error, <<>>,
               RetVal(results[r].value)))

\* Faulty variant: Ok.expectErr raises with the message of Ok.unwrapErr,
\* not with the one it was given.
OkExpectErrFixedMessage(r, error) ==
  /\ IsR(r, "Ok")
  /\ Pure(Call("expectErr", "Ok", r, 0, NoVal, error, <<>>,
               Throw("ResultError", "There is no Err value to unwrap.")))

OkExpectErr(r, error) ==
  /\ IsR(r, "Ok")
  /\ Pure(Call("expectErr", "Ok", r, 0, NoVal, error, <<>>,
               Throw("ResultError", error)))

OkIsErr == FALSE

OkIsOk == TRUE

OkIsErrCall(r) ==
  /\ IsR(r, "Ok")
  /\ Pure(Call("isErr", "Ok", r, 0, NoVal, "", <<>>, RetBool(OkIsErr)))

OkIsOkCall(r) ==
  /\ IsR(r, "Ok")
  /\ Pure(Call("isOk", "Ok", r, 0, NoVal, "", <<>>, RetBool(OkIsOk)))

\* Faulty variant: Ok.map writes the mapped value through `this` and returns
\* the receiver.
OkMapInPlace(r, out) ==
  /\ IsR(r, "Ok") /\ out \in ValOutcomes
  /\ LET cbs == <<Invoke("fn", <<results[r].value>>, out)>>
     IN  IF out.t = "throw"
         THEN Pure(Call("map", "Ok", r, 0, NoVal, "", cbs, Rethrow(out.v)))
         ELSE /\ results' = [results EXCEPT ![r].value = out.v]
              /\ call' = Call("map", "Ok", r, 0, NoVal, "", cbs, RetRes(r))
              /\ UNCHANGED options

OkMap(r, out) ==
  /\ IsR(r, "Ok") /\ out \in ValOutcomes
  /\ LET cbs == <<Invoke("fn", <<results[r].value>>, out)>>
     IN  IF out.t = "throw"
         THEN Pure(Call("map", "Ok", r, 0, NoVal, "", cbs, Rethrow(out.v)))
         ELSE AllocRes(Call("map", "Ok", r, 0, NoVal, "", cbs,
                            RetRes(NextRes)), OkMapNew(results, r, Returning(results[r].value, out.v)))

OkMapErr(r) ==
  /\ IsR(r, "Ok")
  /\ AllocRes(Call("mapErr", "Ok", r, 0, NoVal, "", <<>>, RetRes(NextRes)),
              NewOk(results[r].value))

\* Faulty variant: Ok.mapOr answers as Err.mapOr does (return def).
OkMapOrReturnsDefault(r, def, out) ==
  /\ IsR(r, "Ok") /\ out \in ValOutcomes
  /\ Pure(Call("mapOr", "Ok", r, 0, def, "", <<>>, RetVal(def)))

OkMapOr(r, def, out) ==
  /\ IsR(r, "Ok") /\ out \in ValOutcomes
  /\ Pure(Call("mapOr", "Ok", r, 0, def, "",
               <<Invoke("fn", <<results[r].value>>, out)>>,
               OnOutcome(out, RetVal(out.v))))

OkMapOrElse(r, out) ==
  /\ IsR(r, "Ok") /\ out \in ValOutcomes
  /\ Pure(Call("mapOrElse", "Ok", r, 0, NoVal, "",
               <<Invoke("fn", <<results[r].value>>, out)>>,
               OnOutcome(out, RetVal(out.v))))

OkOk(r) ==
  /\ IsR(r, "Ok")
  /\ AllocOpt(Call("ok", "Ok", r, 0, NoVal, "", <<>>, RetOpt(NextOpt)),
              OkOkNew(results, r))

\* Ok.or as the identity on the receiver (return this).
OkOrReturnsThis(r, other) ==
  /\ IsR(r, "Ok") /\ other \in Ress
  /\ Pure(Call("or", "Ok", r, other, NoVal, "", <<>>, RetRes(r)))

OkOr(r, other) ==
  /\ IsR(r, "Ok") /\ other \in Ress
  /\ AllocRes(Call("or", "Ok", r, other, NoVal, "", <<>>, RetRes(NextRes)),
              NewOk(results[r].value))

OkOrElse(r) ==
  /\ IsR(r, "Ok")
  /\ AllocRes(Call("orElse", "Ok", r, 0, NoVal, "", <<>>, RetRes(NextRes)),
              NewOk(results[r].value))

OkUnwrap(r) ==
  /\ IsR(r, "Ok")
  /\ Pure(Call("unwrap", "Ok", r, 0, NoVal, "", <<>>,
               RetVal(results[r].value)))

OkUnwrapErr(r) ==
  /\ IsR(r, "Ok")
  /\ Pure(Call("unwrapErr", "Ok", r, 0, NoVal, "", <<>>,
               Throw("ResultError", "There is no Err value to unwrap.")))

OkUnwrapOr(r, def) ==
  /\ IsR(r, "Ok")
  /\ Pure(Call("unwrapOr", "Ok", r, 0, def, "", <<>>,
               RetVal(results[r].value)))

OkUnwrapOrElse(r) ==
  /\ IsR(r, "Ok")
  /\ Pure(Call("unwrapOrElse", "Ok", r, 0, NoVal, "", <<>>,
               RetVal(results[r].value)))

\* r.isOk() / r.isErr() through the prototype of r.
isOk(r) == IF results[r].proto = "Ok" THEN OkIsOk ELSE ErrIsOk

isErr(r) == IF results[r].proto = "Ok" THEN OkIsErr ELSE ErrIsErr

---------------------------------------------------------------------------
(* attempt *)

\* What the function handed to attempt may raise: an Error or any value.
AttemptOutcomes == [t : {"ret"}, v : AtomValues, r : {0}, b : {FALSE}]
                     \cup [t : {"throw"}, v : AtomValues \cup {ErrorObj},
                           r : {0}, b : {FALSE}]

\* Faulty variant: what was caught is wrapped in a new Error.
attemptWrapsError(out) ==
  /\ out \in AttemptOutcomes
  /\ AllocRes(Call("attempt", "", 0, 0, NoVal, "", <<Invoke("fn", <<>>, out)>>,
                   RetRes(NextRes)),
              IF out.t = "throw" THEN NewErr(ErrorObj) ELSE NewOk(out.v))

\* try { return ok(fn()); } catch (error) { return err(error as E); }
attempt(out) ==
  /\ out \in AttemptOutcomes
  /\ AllocRes(Call("attempt", "", 0, 0, NoVal, "", <<Invoke("fn", <<>>, out)>>,
                   RetRes(NextRes)),
              IF out.t = "throw" THEN NewErr(out.v) ELSE NewOk(out.v))

-------------------------------------------------------------------------------------------------------------------------------------------------
(* The caller: any constructor, any method of any live object, attempt. *)

Next ==
  \/ none
  \/ \E value \in AtomValues : some(value)
  \/ \E value \in AtomValues : maybe(value)
  \/ \E value \in AtomValues : ok(value)
  \/ \E value \in AtomValues : err(value)
  \/ \E out \in AttemptOutcomes : attempt(out)
  \/ \E o \in Opts, other \in Opts : SomeAnd(o, other)
  \/ \E o \in Opts, out \in OptOutcomes : SomeAndThen(o, out)
  \/ \E o \in Opts, message \in Messages : SomeExpect(o, message)
  \/ \E o \in Opts, out \in BoolOutcomes : SomeFilter(o, out)
  \/ \E o \in Opts, value \in AtomValues : SomeGetOrInsert(o, value)
  \/ \E o \in Opts : SomeGetOrInsertWith(o)
  \/ \E o \in Opts : SomeIsNoneCall(o)
  \/ \E o \in Opts : SomeIsSomeCall(o)
  \/ \E o \in Opts, out \in ValOutcomes : SomeMap(o, out)
  \/ \E o \in Opts, def \in AtomValues, out \in ValOutcomes : SomeMapOr(o, def, out)
  \/ \E o \in Opts, out \in ValOutcomes : SomeMapOrElse(o, out)
  \/ \E o \in Opts, error \in AtomValues : SomeOkOr(o, error)
  \/ \E o \in Opts : SomeOkOrElse(o)
  \/ \E o \in Opts, other \in Opts : SomeOr(o, other)
  \/ \E o \in Opts : SomeOrElse(o)
  \/ \E o \in Opts, value \in AtomValues : SomeReplace(o, value)
  \/ \E o \in Opts : SomeUnwrap(o)
  \/ \E o \in Opts, def \in AtomValues : SomeUnwrapOr(o, def)
  \/ \E o \in Opts : SomeUnwrapOrElse(o)
  \/ \E o \in Opts, other \in Opts : SomeXor(o, other)
  \/ \E o \in Opts, other \in Opts : SomeZip(o, other)
  \/ \E o \in Opts, other \in Opts : NoneAnd(o, other)
  \/ \E o \in Opts : NoneAndThen(o)
  \/ \E o \in Opts, message \in Messages : NoneExpect(o, message)
  \/ \E o \in Opts : NoneFilter(o)
  \/ \E o \in Opts, value \in AtomValues : NoneGetOrInsert(o, value)
  \/ \E o \in Opts, out \in ValOutcomes : NoneGetOrInsertWith(o, out)
  \/ \E o \in Opts : NoneIsNoneCall(o)
  \/ \E o \in Opts : NoneIsSomeCall(o)
  \/ \E o \in Opts : NoneMap(o)
  \/ \E o \in Opts, def \in AtomValues : NoneMapOr(o, def)
  \/ \E o \in Opts, out \in ValOutcomes : NoneMapOrElse(o, out)
  \/ \E o \in Opts, error \in AtomValues : NoneOkOr(o, error)
  \/ \E o \in Opts, out \in ValOutcomes : NoneOkOrElse(o, out)
  \/ \E o \in Opts, other \in Opts : NoneOr(o, other)
  \/ \E o \in Opts, out \in OptOutcomes : NoneOrElse(o, out)
  \/ \E o \in Opts, value \in AtomValues : NoneReplace(o, value)
  \/ \E o \in Opts : NoneUnwrap(o)
  \/ \E o \in Opts, def \in AtomValues : NoneUnwrapOr(o, def)
  \/ \E o \in Opts, out \in ValOutcomes : NoneUnwrapOrElse(o, out)
  \/ \E o \in Opts, other \in Opts : NoneXor(o, other)
  \/ \E o \in Opts, other \in Opts : NoneZip(o, other)
  \/ \E r \in Ress, other \in Ress : ErrAnd(r, other)
  \/ \E r \in Ress : ErrAndThen(r)
  \/ \E r \in Ress : ErrErr(r)
  \/ \E r \in Ress, error \in Messages : ErrExpect(r, error)
  \/ \E r \in Ress, error \in Messages : ErrExpectErr(r, error)
  \/ \E r \in Ress : ErrIsErrCall(r)
  \/ \E r \in Ress : ErrIsOkCall(r)
  \/ \E r \in Ress : ErrMap(r)
  \/ \E r \in Ress, out \in ValOutcomes : ErrMapErr(r, out)
  \/ \E r \in Ress, def \in AtomValues : ErrMapOr(r, def)
  \/ \E r \in Ress, out \in ValOutcomes : ErrMapOrElse(r, out)
  \/ \E r \in Ress : ErrOk(r)
  \/ \E r \in Ress, def \in Ress : ErrOr(r, def)
  \/ \E r \in Ress, out \in ResOutcomes : ErrOrElse(r, out)
  \/ \E r \in Ress : ErrUnwrap(r)
  \/ \E r \in Ress : ErrUnwrapErr(r)
  \/ \E r \in Ress, def \in AtomValues : ErrUnwrapOr(r, def)
  \/ \E r \in Ress, out \in ValOutcomes : ErrUnwrapOrElse(r, out)
  \/ \E r \in Ress, other \in Ress : OkAnd(r, other)
  \/ \E r \in Ress, out \in ResOutcomes : OkAndThen(r, out)
  \/ \E r \in Ress : OkErr(r)
  \/ \E r \in Ress, error \in Messages : OkExpect(r, error)
  \/ \E r \in Ress, error \in Messages : OkExpectErr(r, error)
  \/ \E r \in Ress : OkIsErrCall(r)
  \/ \E r \in Ress : OkIsOkCall(r)
  \/ \E r \in Ress, out \in ValOutcomes : OkMap(r, out)
  \/ \E r \in Ress : OkMapErr(r)
  \/ \E r \in Ress, def \in AtomValues, out \in ValOutcomes : OkMapOr(r, def, out)
  \/ \E r \in Ress, out \in ValOutcomes : OkMapOrElse(r, out)
  \/ \E r \in Ress : OkOk(r)
  \/ \E r \in Ress, other \in Ress : OkOr(r, other)
  \/ \E r \in Ress : OkOrElse(r)
  \/ \E r \in Ress : OkUnwrap(r)
  \/ \E r \in Ress : OkUnwrapErr(r)
  \/ \E r \in Ress, def \in AtomValues : OkUnwrapOr(r, def)
  \/ \E r \in Ress : OkUnwrapOrElse(r)

Spec == Init /\ [][Next]_vars

\* Payloads of every kind the switch of Err.unwrap tells apart: a number, a
\* string, a boolean, undefined, a function, a symbol, null, an Error and an
\* array.
RenderValues ==
  {Val("0"), Val("a"), Val("true"), Undefined, Val("function"), Val("symbol"),
   Val("null"), ErrorObj, Pair(Val("0"), Undefined)}

\* The caller builds results around payloads of every kind and unwraps them.
NextRender ==
  \/ \E value \in RenderValues : ok(value)
  \/ \E value \in RenderValues : err(value)
  \/ \E r \in Ress : OkUnwrap(r)
  \/ \E r \in Ress : ErrUnwrap(r)

SpecRender == Init /\ [][NextRender]_vars

\* Values handed to maybe: null, undefined, the falsy values 0, '', false
\* and NaN, and a string that is not empty.
MaybeValues ==
  {Val("null"), Undefined, Val("0"), Val(""), Val("false"), Val("NaN"),
   Val("a")}

\* The caller wraps values with maybe and looks at the options it got.
NextMaybe ==
  \/ \E value \in MaybeValues : maybe(value)
  \/ \E o \in Opts : SomeIsNoneCall(o)
  \/ \E o \in Opts : SomeIsSomeCall(o)
  \/ \E o \in Opts : SomeUnwrap(o)
  \/ \E o \in Opts : NoneIsNoneCall(o)
  \/ \E o \in Opts : NoneIsSomeCall(o)
  \/ \E o \in Opts : NoneUnwrap(o)

SpecMaybe == Init /\ [][NextMaybe]_vars

---------------------------------------------------------------------------
(* Properties *)

\* The last call was made on an option / on a result.
OptionCall == call.cls \in {"Some", "None"}

ResultCall == call.cls \in {"Ok", "Err"}

\* The reference the last call returned did not exist before the call.
FreshOpt == call.ret.kind = "opt" /\ call.ret.ref \in Opts
              /\ call.ret.ref \notin DOMAIN call.pre

FreshRes == call.ret.kind = "res" /\ call.ret.ref \in Ress
              /\ call.ret.ref \notin DOMAIN call.preRes

Changed == {o \in DOMAIN call.pre : options[o] # call.pre[o]}

\* C2 as stated: among the operations of an option only replace changes an
\* existing option.
C2_OnlyReplaceMutates ==
  (OptionCall /\ call.op # "replace") => Changed = {}

\* C2: among the operations of an option only replace, and getOrInsert and
\* getOrInsertWith on a None receiver, change the state of an existing
\* option, and they change only their receiver; every other operation leaves
\* the case and the held value of the receiver and of the argument unchanged.
C2_Frame ==
  OptionCall =>
    /\ Changed \subseteq {call.recv}
    /\ Changed # {} =>
         \/ call.op = "replace"
         \/ call.op \in {"getOrInsert", "getOrInsertWith"} /\ call.cls = "None"

\* getOrInsert has converted a None in place while another option exists and
\* is untouched.
C2_Witness ==
  /\ call.op = "getOrInsert" /\ call.cls = "None"
  /\ Changed = {call.recv}
  /\ Len(options) >= 2

\* C3: in every reachable state exactly one of isSome()/isNone() is true of
\* every option and exactly one of isOk()/isErr() is true of every result.
C3_ExactlyOneCase ==
  /\ \A o \in Opts : isSome(o) # isNone(o)
  /\ \A r \in Ress : isOk(r) # isErr(r)

\* An option that began as None has been converted, next to a result.
C3_Witness ==
  /\ call.op \in {"replace", "getOrInsert", "getOrInsertWith"}
  /\ call.cls = "None"
  /\ isSome(call.recv)
  /\ Ress # {}

\* The callbacks the last call invoked, as the parameters they were passed as
\* and as the argument lists they received.
InvokedCbs == {call.cbs[i].cb : i \in DOMAIN call.cbs}

InvokedArgs == [i \in DOMAIN call.cbs |-> call.cbs[i].args]

\* No callback of the last call raised.
NoCallbackRaised == \A i \in DOMAIN call.cbs : call.cbs[i].out.t # "throw"

\* C4: on a None receiver andThen, filter, map, mapOr and mapOrElse never
\* invoke their value-taking callback (fn / predicate), so that whatever runs
\* is a producer called without argument; on an Err receiver andThen, map,
\* mapOr and mapOrElse never invoke their success-value callback.
C4_ShortCircuit ==
  /\ (call.cls = "None"
        /\ call.op \in {"andThen", "filter", "map", "mapOr", "mapOrElse"})
       => /\ InvokedCbs \cap {"fn", "predicate"} = {}
          /\ \A i \in DOMAIN call.cbs : call.cbs[i].args = <<>>
  /\ (call.cls = "Err" /\ call.op \in {"andThen", "map", "mapOr", "mapOrElse"})
       => InvokedCbs \cap {"fn", "other"} = {}

\* mapOrElse on a None has run its default producer and nothing else.
C4_Witness ==
  /\ call.cls = "None" /\ call.op = "mapOrElse"
  /\ InvokedCbs = {"def"}

\* C5: on a Some receiver the default producer of mapOrElse, the error
\* producer of okOrElse and the producers of orElse, unwrapOrElse and
\* getOrInsertWith are not called; on an Ok receiver the fn of mapErr, the
\* default fn of mapOrElse and the fn of orElse and unwrapOrElse are not called.
C5_NoFallback ==
  /\ (call.cls = "Some"
        /\ call.op \in {"okOrElse", "orElse", "unwrapOrElse",
                        "getOrInsertWith"})
       => call.cbs = <<>>
  /\ (call.cls = "Some" /\ call.op = "mapOrElse")
       => /\ "def" \notin InvokedCbs
          /\ \A i \in DOMAIN call.cbs : call.cbs[i].args # <<>>
  /\ (call.cls = "Ok" /\ call.op \in {"mapErr", "orElse", "unwrapOrElse"})
       => call.cbs = <<>>
  /\ (call.cls = "Ok" /\ call.op = "mapOrElse") => "def" \notin InvokedCbs

\* mapOrElse on an Ok has run the mapper and not the default.
C5_Witness ==
  /\ call.cls = "Ok" /\ call.op = "mapOrElse"
  /\ InvokedCbs = {"fn"}

\* The argument lists a call must have handed to its callbacks: the held
\* payload to the one transformer that applies to the active case, nothing to
\* the one producer that applies, and no invocation otherwise.
ExpectedArgs ==
  CASE call.cls = "Some"
         /\ call.op \in {"andThen", "filter", "map", "mapOr", "mapOrElse"}
         -> << <<call.pre[call.recv].value>> >>
    [] call.cls = "None"
         /\ call.op \in {"getOrInsertWith", "mapOrElse", "okOrElse", "orElse",
                         "unwrapOrElse"}
         -> << <<>> >>
    [] call.cls = "Ok"
         /\ call.op \in {"andThen", "map", "mapOr", "mapOrElse"}
         -> << <<call.preRes[call.recv].value>> >>
    [] call.cls = "Err"
         /\ call.op \in {"mapErr", "mapOrElse", "orElse", "unwrapOrElse"}
         -> << <<call.preRes[call.recv].value>> >>
    [] OTHER -> <<>>

\* C6: every container operation that takes callbacks invokes at most one of
\* them, at most once per call and exactly once when the callback applies to
\* the active case of the receiver, passing the held payload to a value or
\* error transformer and no argument to a producer.
C6_AtMostOnce ==
  (OptionCall \/ ResultCall) =>
    /\ Len(call.cbs) <= 1
    /\ InvokedArgs = ExpectedArgs

\* mapOrElse on an Err has handed the error to its default.
C6_Witness ==
  /\ call.cls = "Err" /\ call.op = "mapOrElse"
  /\ Len(call.cbs) = 1
  /\ call.cbs[1].args = <<results[call.recv].value>>

\* C7: unwrap() on a freshly constructed some(v) returns exactly v, whatever
\* v is; unwrap() on none(), and on any option that is None, raises the
\* empty-value error with the message 'No value to unwrap.' and returns
\* nothing.
C7_Unwrap ==
  /\ call.op = "some" => UnwrapIn(options, call.ret.ref) = RetVal(call.argv)
  /\ call.op = "none" =>
       UnwrapIn(options, call.ret.ref)
         = Throw("OptionError", "No value to unwrap.")
  /\ (OptionCall /\ call.op = "unwrap") =>
       IF call.cls = "Some"
       THEN call.ret = RetVal(call.pre[call.recv].value)
       ELSE call.ret = Throw("OptionError", "No value to unwrap.")

\* some(null) was constructed and then unwrapped.
C7_Witness ==
  /\ call.op = "unwrap" /\ call.cls = "Some"
  /\ Len(call.pre) = 1 /\ Len(call.preRes) = 0
  /\ call.ret = RetVal(Val("null"))

\* C8 as stated: unwrap() on None is the only call on an option that fails
\* when no callback raises.
C8_OnlyUnwrapFails ==
  (OptionCall /\ NoCallbackRaised /\ call.ret.kind = "throw")
    => (call.cls = "None" /\ call.op = "unwrap")

\* C8: unwrap() and expect(message) on None are the only failing calls on an
\* option; they raise an OptionError (with the fixed message, with the given
\* message), and on both Some and None receivers every other operation
\* completes without raising when its callbacks do not raise.
C8_OnlyUnwrapAndExpectFail ==
  (OptionCall /\ NoCallbackRaised) =>
    IF call.cls = "None" /\ call.op \in {"unwrap", "expect"}
    THEN call.ret = Throw("OptionError",
                          IF call.op = "unwrap" THEN "No value to unwrap."
                          ELSE call.msg)
    ELSE call.ret.kind # "throw"

\* expect on a None has raised with the message it was given.
C8_Witness ==
  /\ call.cls = "None" /\ call.op = "expect"
  /\ call.ret.kind = "throw" /\ call.ret.msg = call.msg
  /\ call.msg \in Messages

\* C9: attempt(fn) invokes fn exactly once, without argument, and never
\* raises: when fn returns r the result is a new Ok holding r; when fn raises
\* x, an Error or any other value, the result is a new Err holding exactly x.
C9_Attempt ==
  call.op = "attempt" =>
    /\ Len(call.cbs) = 1 /\ call.cbs[1].args = <<>>
    /\ FreshRes
    /\ LET out == call.cbs[1].out
           res == call.ret.ref
       IN  /\ out.t = "ret" =>
                isOk(res) /\ ~isErr(res) /\ results[res].value = out.v
           /\ out.t = "throw" =>
                isErr(res) /\ ~isOk(res) /\ results[res].value = out.v

\* attempt has caught a raised value that is not an Error.
C9_Witness ==
  /\ call.op = "attempt"
  /\ call.cbs[1].out.t = "throw" /\ call.cbs[1].out.v = Val("null")
  /\ results[call.ret.ref] = NewErr(Val("null"))

RoundTrip(o, e, lazy, toOk) ==
  LET res  == IF lazy THEN OkOrElseIn(options, o, e) ELSE OkOrIn(options, o, e)
      back == IF toOk THEN ResultOkIn(<<res>>, 1) ELSE ResultErrIn(<<res>>, 1)
  IN  UnwrapIn(<<back>>, 1)

\* Each call of the chain, when it runs, yields what RoundTrip computes for
\* that step from the state before the call.
RoundTripSteps ==
  /\ (OptionCall /\ call.op = "okOr") =>
       /\ FreshRes
       /\ results[call.ret.ref] = OkOrIn(call.pre, call.recv, call.argv)
  /\ (OptionCall /\ call.op = "okOrElse" /\ NoCallbackRaised) =>
       /\ FreshRes
       /\ results[call.ret.ref] =
            OkOrElseIn(call.pre, call.recv,
                       IF call.cbs = <<>> THEN Undefined
                                          ELSE call.cbs[1].out.v)
  /\ (ResultCall /\ call.op = "ok") =>
       FreshOpt /\ options[call.ret.ref] = ResultOkIn(call.preRes, call.recv)
  /\ (ResultCall /\ call.op = "err") =>
       FreshOpt /\ options[call.ret.ref] = ResultErrIn(call.preRes, call.recv)
  /\ (OptionCall /\ call.op = "unwrap") =>
       call.ret = UnwrapIn(call.pre, call.recv)

\* C13: for all v and e, some(v).okOr(e).ok().unwrap() is v and
\* none().okOr(e).err().unwrap() is e, and likewise with okOrElse(() => e) in
\* the place of okOr(e).
C13_RoundTrip ==
  /\ \A e \in AtomValues, lazy \in BOOLEAN :
       /\ call.op = "some" =>
            RoundTrip(call.ret.ref, e, lazy, TRUE) = RetVal(call.argv)
       /\ call.op = "none" =>
            RoundTrip(call.ret.ref, e, lazy, FALSE) = RetVal(e)
  /\ RoundTripSteps

\* The round trip of an absent value has been run: a None became an Err
\* through okOr or okOrElse, and err() on that Err has returned a Some from
\* which unwrap() gives the error back.
C13_Witness ==
  /\ call.cls = "Err" /\ call.op = "err"
  /\ options[1] = NewNone
  /\ call.recv = 1 /\ results[1] = NoneOkOrNew(Val("0"))
  /\ call.ret = RetOpt(2)
  /\ UnwrapIn(options, 2) = RetVal(Val("0"))

\* The identity function v => v, known at the value v.
Identity(v) == Returning(v, v)

\* Two options answer alike to the accessors isSome, isNone and unwrap.
SameOption(a, b) ==
  /\ a.proto = b.proto
  /\ IsSomeIn(<<a>>, 1) = IsSomeIn(<<b>>, 1)
  /\ IsNoneIn(<<a>>, 1) = IsNoneIn(<<b>>, 1)
  /\ UnwrapIn(<<a>>, 1) = UnwrapIn(<<b>>, 1)

\* Two results are of the same case and hold the same value.
SameResult(a, b) == a.proto = b.proto /\ a.value = b.value

\* The last call was x.map(fn) with an fn that acted as v => v: it was not
\* invoked, or it returned the argument it was given.
MappedIdentity ==
  /\ call.op = "map"
  /\ \A i \in DOMAIN call.cbs :
       /\ call.cbs[i].out.t = "ret"
       /\ call.cbs[i].args = <<call.cbs[i].out.v>>

\* C14: for every Option x and every Result x, x.map(v => v) is
\* observationally equivalent to x: of the same case, and with the same held
\* value under every non-mutating accessor.
C14_IdentityLaw ==
  /\ (OptionCall /\ MappedIdentity) =>
       /\ call.ret.kind = "opt"
       /\ SameOption(options[call.ret.ref], call.pre[call.recv])
       /\ SameOption(options[call.recv], call.pre[call.recv])
  /\ (ResultCall /\ MappedIdentity) =>
       /\ call.ret.kind = "res"
       /\ SameResult(results[call.ret.ref], call.preRes[call.recv])
       /\ SameResult(results[call.recv], call.preRes[call.recv])
  /\ \A o \in Opts :
       SameOption(MapIn(options, o, Identity(options[o].value)), options[o])
  /\ \A r \in Ress :
       SameResult(ResultMapIn(results, r, Identity(results[r].value)),
                  results[r])

\* map ran on a Some with a callback that returned its argument, and gave a
\* second Some that holds the same value.
C14_Witness ==
  /\ call.cls = "Some" /\ call.op = "map"
  /\ Len(call.cbs) = 1 /\ call.cbs[1].out.t = "ret"
  /\ call.cbs[1].args = <<call.cbs[1].out.v>>
  /\ call.ret.kind = "opt" /\ call.ret.ref # call.recv
  /\ options[call.ret.ref] = options[call.recv]

\* The functions f that x.map(f) may be given when x holds v, and the
\* functions g that may follow them.
FirstFns(v) == [AtomValues \cup {v} -> AtomValues]

SecondFns == [AtomValues -> AtomValues]

\* v => g(f(v))
Compose(g, f) == [x \in DOMAIN f |-> g[f[x]]]

\* A map call whose callback returned yields what MapIn / ResultMapIn
\* computes from the state before the call.
MapSteps ==
  /\ (OptionCall /\ call.op = "map" /\ NoCallbackRaised) =>
       /\ FreshOpt
       /\ options[call.ret.ref] =
            MapIn(call.pre, call.recv,
                  IF call.cbs = <<>> THEN Identity(Undefined)
                  ELSE Returning(call.cbs[1].args[1], call.cbs[1].out.v))
  /\ (ResultCall /\ call.op = "map" /\ NoCallbackRaised) =>
       /\ FreshRes
       /\ results[call.ret.ref] =
            ResultMapIn(call.preRes, call.recv,
                        IF call.cbs = <<>> THEN Identity(Undefined)
                        ELSE Returning(call.cbs[1].args[1],
                                       call.cbs[1].out.v))

\* C15: for every Some or Ok x and all functions f and g, x.map(f).map(g)
\* is observationally equivalent to x.map(v => g(f(v))).
C15_CompositionLaw ==
  /\ \A o \in Opts : isSome(o) =>
       \A f \in FirstFns(options[o].value), g \in SecondFns :
         SameOption(MapIn(<<MapIn(options, o, f)>>, 1, g),
                    MapIn(options, o, Compose(g, f)))
  /\ \A r \in Ress : isOk(r) =>
       \A f \in FirstFns(results[r].value), g \in SecondFns :
         SameResult(ResultMapIn(<<ResultMapIn(results, r, f)>>, 1, g),
                    ResultMapIn(results, r, Compose(g, f)))
  /\ MapSteps

\* map has run on a Some that holds another value than the first Some, and
\* has given a third Some that holds the value of the first: two successive
\* map calls that a single one could stand for.
C15_Witness ==
  /\ call.cls = "Some" /\ call.op = "map"
  /\ call.recv = 2 /\ call.ret = RetOpt(3)
  /\ options[1].proto = "Some" /\ options[2].proto = "Some"
  /\ options[2].value # options[1].value
  /\ options[3] = NewSome(call.cbs[1].out.v)
  /\ options[3].value = options[1].value

\* C16: xor returns a None when receiver and argument are in the same
\* presence state, and returns the operand that is Some, itself, when
\* exactly one of them is Some; the None returned when both are None is
\* neither the receiver nor the argument.
C16_Xor ==
  (OptionCall /\ call.op = "xor") =>
    LET recvSome == IsSomeIn(call.pre, call.recv)
        argSome  == IsSomeIn(call.pre, call.arg)
    IN  /\ call.ret.kind = "opt"
        /\ (recvSome = argSome) =>
             /\ isNone(call.ret.ref) /\ ~isSome(call.ret.ref)
             /\ call.ret.ref \notin {call.recv, call.arg}
        /\ (recvSome /\ ~argSome) =>
             call.ret.ref = call.recv /\ isSome(call.ret.ref)
        /\ (~recvSome /\ argSome) =>
             call.ret.ref = call.arg /\ isSome(call.ret.ref)
        /\ \A o \in DOMAIN call.pre : options[o] = call.pre[o]

\* xor of two distinct None has returned a third None.
C16_Witness ==
  /\ call.cls = "None" /\ call.op = "xor"
  /\ call.arg # call.recv /\ call.pre[call.arg].proto = "None"
  /\ call.ret.kind = "opt" /\ call.ret.ref \notin {call.recv, call.arg}
  /\ options[call.ret.ref] = NewNone

\* C17: zip returns a Some only when both the receiver and the argument are
\* Some, and its value is then the pair of the receiver's value and the
\* argument's value, in that order; in every other case it returns a None.
C17_Zip ==
  (OptionCall /\ call.op = "zip") =>
    LET recv == call.pre[call.recv]
        arg  == call.pre[call.arg]
    IN  /\ call.ret.kind = "opt"
        /\ IF IsSomeIn(call.pre, call.recv) /\ IsSomeIn(call.pre, call.arg)
           THEN /\ isSome(call.ret.ref)
                /\ UnwrapIn(options, call.ret.ref) =
                     RetVal(Pair(recv.value, arg.value))
           ELSE isNone(call.ret.ref) /\ ~isSome(call.ret.ref)
        /\ \A o \in DOMAIN call.pre : options[o] = call.pre[o]

\* zip of two Some that hold different values has returned a Some holding
\* the pair, the receiver's value first.
C17_Witness ==
  /\ call.cls = "Some" /\ call.op = "zip"
  /\ call.pre[call.arg].proto = "Some"
  /\ call.pre[call.recv].value = Val("0")
  /\ call.pre[call.arg].value = Val("null")
  /\ call.ret.kind = "opt"
  /\ options[call.ret.ref] = NewSome(<<Val("0"), Val("null")>>)

\* The last call left every option that existed before it as it was.
OptionsKept == \A o \in DOMAIN call.pre : options[o] = call.pre[o]

\* C18: on Some, and(other) returns other itself, unchanged, and andThen(fn)
\* returns exactly the option that fn(value) returned; on None, and(other)
\* and andThen(fn) return a new None that is not the receiver.
C18_OptionAndAndThen ==
  /\ (call.cls = "Some" /\ call.op = "and") =>
       /\ call.ret = RetOpt(call.arg)
       /\ options = call.pre
  /\ (call.cls = "Some" /\ call.op = "andThen" /\ NoCallbackRaised) =>
       /\ Len(call.cbs) = 1
       /\ call.cbs[1].args = <<call.pre[call.recv].value>>
       /\ call.ret = RetOpt(call.cbs[1].out.r)
       /\ options = call.pre
  /\ (call.cls = "None" /\ call.op \in {"and", "andThen"}) =>
       /\ FreshOpt
       /\ call.ret.ref # call.recv
       /\ isNone(call.ret.ref) /\ ~isSome(call.ret.ref)
       /\ call.cbs = <<>>
       /\ OptionsKept

\* and on a None was given a Some and returned a third object, a None.
C18_Witness ==
  /\ call.cls = "None" /\ call.op = "and"
  /\ call.pre[call.arg].proto = "Some"
  /\ call.ret.kind = "opt" /\ call.ret.ref \notin {call.recv, call.arg}
  /\ options[call.ret.ref] = NewNone

\* C19: on Some, or(other) and orElse(fn) return the receiver itself; on
\* None, or(other) returns other itself and orElse(fn) returns exactly the
\* option that fn() returned.
C19_OptionOrOrElse ==
  /\ (call.cls = "Some" /\ call.op \in {"or", "orElse"}) =>
       /\ call.ret = RetOpt(call.recv)
       /\ call.cbs = <<>>
       /\ options = call.pre
  /\ (call.cls = "None" /\ call.op = "or") =>
       /\ call.ret = RetOpt(call.arg)
       /\ options = call.pre
  /\ (call.cls = "None" /\ call.op = "orElse" /\ NoCallbackRaised) =>
       /\ Len(call.cbs) = 1
       /\ call.cbs[1].args = <<>>
       /\ call.ret = RetOpt(call.cbs[1].out.r)
       /\ options = call.pre

\* or on a Some was given another option, a Some holding another value, and
\* returned the receiver.
C19_Witness ==
  /\ call.cls = "Some" /\ call.op = "or"
  /\ call.arg # call.recv
  /\ options[call.arg].proto = "Some"
  /\ options[call.arg].value # options[call.recv].value
  /\ call.ret = RetOpt(call.recv)

\* C20: filter(pred) returns the receiver itself when the receiver is Some
\* and pred(value) is true, a new None when the receiver is Some and
\* pred(value) is false, and a new None that is not the receiver when the
\* receiver is None; the result is Some exactly when the receiver is Some
\* and the predicate holds.
C20_Filter ==
  (OptionCall /\ call.op = "filter" /\ NoCallbackRaised) =>
    LET wasSome == IsSomeIn(call.pre, call.recv)
        holds   == call.cbs # <<>> /\ call.cbs[1].out.b
    IN  /\ call.ret.kind = "opt"
        /\ wasSome => /\ Len(call.cbs) = 1
                      /\ call.cbs[1].args = <<call.pre[call.recv].value>>
        /\ ~wasSome => call.cbs = <<>>
        /\ (wasSome /\ holds) => call.ret.ref = call.recv
        /\ ~(wasSome /\ holds) =>
             /\ FreshOpt
             /\ call.ret.ref # call.recv
             /\ isNone(call.ret.ref)
        /\ isSome(call.ret.ref) <=> (wasSome /\ holds)
        /\ OptionsKept

\* filter on a Some whose value the predicate accepted returned the
\* receiver, still Some.
C20_Witness ==
  /\ call.cls = "Some" /\ call.op = "filter"
  /\ call.cbs[1].out.t = "ret" /\ call.cbs[1].out.b
  /\ call.ret = RetOpt(call.recv)
  /\ options[call.recv].proto = "Some"

\* C21: on a Result, expect(m) returns the value on Ok and raises an error
\* whose message is exactly m on Err; expectErr(m) returns the error on Err
\* and raises an error whose message is exactly m on Ok; unwrapErr() returns
\* the error on Err and raises with the message 'There is no Err value to
\* unwrap.' on Ok.
C21_ExpectAndUnwrapErr ==
  LET held == call.preRes[call.recv].value
  IN  /\ (call.cls = "Ok" /\ call.op = "expect") => call.ret = RetVal(held)
      /\ (call.cls = "Err" /\ call.op = "expect") =>
           /\ call.ret.kind = "throw"
           /\ call.ret.err = "ResultError" /\ call.ret.msg = call.msg
      /\ (call.cls = "Err" /\ call.op = "expectErr") =>
           call.ret = RetVal(held)
      /\ (call.cls = "Ok" /\ call.op = "expectErr") =>
           /\ call.ret.kind = "throw"
           /\ call.ret.err = "ResultError" /\ call.ret.msg = call.msg
      /\ (call.cls = "Err" /\ call.op = "unwrapErr") =>
           call.ret = RetVal(held)
      /\ (call.cls = "Ok" /\ call.op = "unwrapErr") =>
           call.ret = Throw("ResultError", "There is no Err value to unwrap.")
      /\ (ResultCall /\ call.op \in {"expect", "expectErr", "unwrapErr"}) =>
           results = call.preRes /\ call.cbs = <<>>

\* expectErr on an Ok has raised with the message it was given.
C21_Witness ==
  /\ call.cls = "Ok" /\ call.op = "expectErr"
  /\ call.msg \in Messages
  /\ call.ret = Throw("ResultError", call.msg)

\* The message the rendering rule gives for an error payload: '[Function]'
\* for a function, '[Symbol]' for a symbol, the JSON serialisation for an
\* object, the string conversion for every other payload.
RenderedMessage(value) ==
  CASE TypeOf(value) = "function" -> "[Function]"
    [] TypeOf(value) = "symbol" -> "[Symbol]"
    [] TypeOf(value) = "object" -> JSONStringify(value)
    [] OTHER -> StringOf(value)

\* C22: unwrap() on a Result returns the value on Ok and always raises on
\* Err, with a message chosen by the kind of the error payload: '[Function]'
\* for a function, '[Symbol]' for a symbol, the JSON serialisation for an
\* object, and the natural string conversion for every other, scalar payload.
C22_UnwrapMessage ==
  /\ (call.cls = "Ok" /\ call.op = "unwrap") =>
       call.ret = RetVal(call.preRes[call.recv].value)
  /\ (call.cls = "Err" /\ call.op = "unwrap") =>
       call.ret = Throw("ResultError",
                        RenderedMessage(call.preRes[call.recv].value))

\* C23: on Some and Ok, unwrapOr and unwrapOrElse return the held value and
\* mapOr and mapOrElse return fn(held value); on None and Err, unwrapOr and
\* mapOr return the default they were given, and unwrapOrElse and mapOrElse
\* return the computed default, which is fn() for an Option and fn(error)
\* for a Result.
C23_ValueOrFallback ==
  (call.op \in {"unwrapOr", "unwrapOrElse", "mapOr", "mapOrElse"}
     /\ NoCallbackRaised) =>
    LET held == IF OptionCall THEN call.pre[call.recv].value
                              ELSE call.preRes[call.recv].value
    IN  /\ options = call.pre /\ results = call.preRes
        /\ (call.cls \in {"Some", "Ok"}
              /\ call.op \in {"unwrapOr", "unwrapOrElse"}) =>
             call.cbs = <<>> /\ call.ret = RetVal(held)
        /\ (call.cls \in {"Some", "Ok"}
              /\ call.op \in {"mapOr", "mapOrElse"}) =>
             /\ Len(call.cbs) = 1
             /\ call.cbs[1].cb = "fn"
             /\ call.cbs[1].args = <<held>>
             /\ call.ret = RetVal(call.cbs[1].out.v)
        /\ (call.cls \in {"None", "Err"}
              /\ call.op \in {"unwrapOr", "mapOr"}) =>
             call.cbs = <<>> /\ call.ret = RetVal(call.argv)
        /\ (call.cls \in {"None", "Err"}
              /\ call.op \in {"unwrapOrElse", "mapOrElse"}) =>
             /\ Len(call.cbs) = 1
             /\ call.cbs[1].args =
                  (IF call.cls = "None" THEN <<>> ELSE <<held>>)
             /\ call.ret = RetVal(call.cbs[1].out.v)

\* mapOr on an Ok was given the held value as the default and returned what
\* fn made of the held value, another value.
C23_Witness ==
  /\ call.cls = "Ok" /\ call.op = "mapOr"
  /\ Len(call.cbs) = 1 /\ call.cbs[1].out.t = "ret"
  /\ call.ret = RetVal(call.cbs[1].out.v)
  /\ call.cbs[1].out.v # call.argv
  /\ call.argv = results[call.recv].value

\* C24: on a Some, getOrInsert(value) and getOrInsertWith(fn) return the
\* value already held and leave the receiver unchanged; on a None they turn
\* the receiver, in place, into a Some holding the given or produced value
\* and return that value, so that a second getOrInsert(w) on the same object
\* returns the value inserted first and not w.
C24_GetOrInsert ==
  (call.op \in {"getOrInsert", "getOrInsertWith"} /\ NoCallbackRaised) =>
    LET inserted == IF call.op = "getOrInsert" THEN call.argv
                    ELSE call.cbs[1].out.v
    IN  /\ Len(options) = Len(call.pre) /\ results = call.preRes
        /\ \A o \in Opts \ {call.recv} : options[o] = call.pre[o]
        /\ call.cls = "Some" =>
             /\ call.ret = RetVal(call.pre[call.recv].value)
             /\ options[call.recv] = call.pre[call.recv]
             /\ call.cbs = <<>>
        /\ call.cls = "None" =>
             /\ call.op = "getOrInsertWith" =>
                  Len(call.cbs) = 1 /\ call.cbs[1].args = <<>>
             /\ call.ret = RetVal(inserted)
             /\ isSome(call.recv) /\ ~isNone(call.recv)
             /\ UnwrapIn(options, call.recv) = RetVal(inserted)
             /\ \A w \in AtomValues :
                  GetOrInsertIn(options, call.recv, w) = RetVal(inserted)

\* getOrInsert ran on a Some, the only object there is, with another value
\* than the one held, and returned the held one.
C24_Witness ==
  /\ call.cls = "Some" /\ call.op = "getOrInsert"
  /\ call.ret = RetVal(options[call.recv].value)
  /\ call.argv # options[call.recv].value
  /\ Len(options) = 1 /\ results = <<>>

\* C25: maybe(value) returns a None when value is null or undefined, and a
\* Some holding value, unchanged, for every other value, the falsy values 0,
\* '', false and NaN included.
C25_Maybe ==
  call.op = "maybe" =>
    /\ FreshOpt
    /\ OptionsKept /\ results = call.preRes
    /\ IF call.argv \in {Val("null"), Undefined}
       THEN /\ isNone(call.ret.ref) /\ ~isSome(call.ret.ref)
            /\ UnwrapIn(options, call.ret.ref).kind = "throw"
       ELSE /\ isSome(call.ret.ref) /\ ~isNone(call.ret.ref)
            /\ UnwrapIn(options, call.ret.ref) = RetVal(call.argv)

\* maybe was given the empty string and returned a Some that holds it.
C25_Witness ==
  /\ call.op = "maybe" /\ call.argv = Val("")
  /\ call.ret.kind = "opt"
  /\ options[call.ret.ref] = NewSome(Val(""))

\* C26: no operation changes a Result: every Result that existed before a
\* call, the receiver and the argument among them, has after the call the
\* case and the payload it had before, hence those it was constructed with.
C26_ResultsNeverChange ==
  /\ Len(results) >= Len(call.preRes)
  /\ \A r \in DOMAIN call.preRes :
       /\ results[r] = call.preRes[r]
       /\ isOk(r) = (call.preRes[r].proto = "Ok")
       /\ isErr(r) = (call.preRes[r].proto = "Err")

\* or was called on an Err with another Err, which holds another error, as
\* its argument: both are as they were before the call.
C26_Witness ==
  /\ call.cls = "Err" /\ call.op = "or"
  /\ call.recv = 1 /\ call.arg = 2
  /\ results[1].proto = "Err" /\ results[2].proto = "Err"
  /\ results[1].value # results[2].value
  /\ results = call.preRes

\* The operations that turn their None receiver into a Some.
Inserting == {"replace", "getOrInsert", "getOrInsertWith"}

\* C27: presence is monotone. Over every step, an option that is Some is
\* still Some after it, whatever the operation (replace, getOrInsert,
\* getOrInsertWith, filter with a false predicate, xor and all others), and
\* an option that is None is Some after it only when the step is replace,
\* getOrInsert or getOrInsertWith invoked on that same object.
C27_PresenceMonotone ==
  [][\A o \in Opts :
       /\ isSome(o) => IsSomeIn(options', o) /\ ~IsNoneIn(options', o)
       /\ (isNone(o) /\ IsSomeIn(options', o)) =>
            /\ call'.op \in Inserting
            /\ call'.cls = "None"
            /\ call'.recv = o]_vars

\* replace on a Some has left it a Some, with another value, and returned a
\* second Some with the value held before.
C27_Witness ==
  /\ call.cls = "Some" /\ call.op = "replace"
  /\ call.pre[call.recv].proto = "Some"
  /\ isSome(call.recv)
  /\ options[call.recv].value # call.pre[call.recv].value
  /\ call.ret.kind = "opt" /\ isSome(call.ret.ref)

\* The last call returned a container that is to be independent of the
\* operands: the option replace returned, what map, zip, okOr or okOrElse
\* returned, a None that filter, map, xor, zip or replace returned, and a
\* None that and or andThen returned -- on any receiver, or, when
\* onNoneOnly, on a None receiver only.
ReturnedIndependent(onNoneOnly) ==
  /\ call.ret.kind \in {"opt", "res"}
  /\ \/ OptionCall /\ call.op = "replace"
     \/ (OptionCall \/ ResultCall)
          /\ call.op \in {"map", "zip", "okOr", "okOrElse"}
     \/ /\ OptionCall /\ call.op \in {"filter", "xor"}
        /\ isNone(call.ret.ref)
     \/ /\ OptionCall /\ call.op \in {"and", "andThen"}
        /\ isNone(call.ret.ref)
        /\ onNoneOnly => call.cls = "None"

\* The options the last call had as its receiver and its argument.
Operands ==
  IF OptionCall
  THEN {call.recv} \cup (IF call.arg \in DOMAIN call.pre THEN {call.arg} ELSE {})
  ELSE {}

\* The next step leaves the container the last call returned as it is when
\* it is replace, getOrInsert or getOrInsertWith on an operand of the last
\* call, and leaves the operands as they are when it is replace on the
\* option the last call returned.
NextKeepsApart ==
  /\ (call'.cls \in {"Some", "None"} /\ call'.op \in Inserting
        /\ call'.recv \in Operands) =>
       IF call.ret.kind = "opt"
       THEN options'[call.ret.ref] = options[call.ret.ref]
       ELSE results'[call.ret.ref] = results[call.ret.ref]
  /\ (call'.cls \in {"Some", "None"} /\ call'.op = "replace"
        /\ call.ret.kind = "opt" /\ call'.recv = call.ret.ref) =>
       \A o \in Operands : options'[o] = options[o]

\* The container the step returns did not exist before the step.
StepFresh ==
  IF call'.ret.kind = "opt"
  THEN call'.ret.ref \in DOMAIN options' /\ call'.ret.ref \notin DOMAIN options
  ELSE call'.ret.ref \in DOMAIN results' /\ call'.ret.ref \notin DOMAIN results

\* C28 as stated: the option returned by replace, the containers returned
\* by map, zip, okOr and okOrElse, and every None returned by and, andThen,
\* filter, map, xor, zip or replace are fresh objects, so that a later
\* replace or getOrInsert on the receiver or the argument never changes a
\* container returned before, and a replace on a returned container never
\* changes the receiver or the argument.
C28_AllReturnedFresh ==
  [][/\ ReturnedIndependent(FALSE)' => StepFresh
     /\ ReturnedIndependent(FALSE) => NextKeepsApart]_vars

\* C28: the same, with the None returned by and and andThen taken on a None
\* receiver only: on a Some receiver and returns its argument and andThen
\* what fn returned, which may be a None that exists already.
C28_ReturnedFresh ==
  [][/\ ReturnedIndependent(TRUE)' => StepFresh
     /\ ReturnedIndependent(TRUE) => NextKeepsApart]_vars

\* replace has run on the first option, next to a Some that it left as it
\* was, and has returned a third option, which holds the value the receiver
\* held before and differs from what the two others hold now.
C28_Witness ==
  /\ call.cls = "Some" /\ call.op = "replace"
  /\ call.recv = 1 /\ call.ret = RetOpt(3)
  /\ options[2] = call.pre[2]
  /\ options[2].proto = "Some"
  /\ options[3] = NewSome(call.pre[1].value)
  /\ options[2].value # options[3].value
  /\ options[1].value # options[3].value
  /\ results = <<>>

\* The last call is one of those said to return the receiver itself:
\* Some.filter with a predicate that held, Some.or, Some.orElse, and Some.xor
\* with a None argument.
ReturnsReceiver ==
  /\ call.cls = "Some"
  /\ \/ /\ call.op = "filter"
        /\ Len(call.cbs) = 1 /\ call.cbs[1].out.t = "ret" /\ call.cbs[1].out.b
     \/ call.op \in {"or", "orElse"}
     \/ call.op = "xor" /\ IsNoneIn(call.pre, call.arg)

\* The last call is one of those said to return the argument itself:
\* Some.and, None.or, and None.xor with a Some argument.
ReturnsArgument ==
  \/ call.cls = "Some" /\ call.op = "and"
  \/ call.cls = "None" /\ call.op = "or"
  \/ call.cls = "None" /\ call.op = "xor" /\ IsSomeIn(call.pre, call.arg)

\* The operand such a call is said to return.
Original == IF ReturnsReceiver THEN call.recv ELSE call.arg

\* C29: Some.filter (predicate true), Some.or, Some.orElse and Some.xor
\* (argument None) return the receiver, and Some.and, None.or and None.xor
\* (argument Some) return the argument, so that a replace(w) performed
\* afterwards on the original object is visible through the returned
\* option: it is Some and unwrap() on it returns w.
C29_AliasSeesReplace ==
  [][/\ (ReturnsReceiver \/ ReturnsArgument)' => call'.ret = RetOpt(Original')
     /\ ((ReturnsReceiver \/ ReturnsArgument)
           /\ call'.cls \in {"Some", "None"} /\ call'.op = "replace"
           /\ call'.recv = Original) =>
          /\ call.ret.kind = "opt"
          /\ IsSomeIn(options', call.ret.ref)
          /\ UnwrapIn(options', call.ret.ref) = RetVal(call'.argv)]_vars

\* xor on a Some was given a None and returned the receiver, and there is
\* room left for a replace on it.
C29_Witness ==
  /\ call.cls = "Some" /\ call.op = "xor"
  /\ call.pre[call.arg].proto = "None"
  /\ call.ret = RetOpt(call.recv)
  /\ Room

\* A callback of the last call raised.
CallbackRaised == \E i \in DOMAIN call.cbs : call.cbs[i].out.t = "throw"

\* C30: an error raised by a callback is never absorbed by an operation of a
\* container: the operation raises that same error to its caller, produces
\* no container and leaves the receiver, like every other object, as it was
\* (None.getOrInsertWith leaves the receiver None); attempt is the only
\* function that turns a raised error into an Err.
C30_CallbackErrorPropagates ==
  /\ ((OptionCall \/ ResultCall) /\ CallbackRaised) =>
       /\ Len(call.cbs) = 1
       /\ call.ret = Rethrow(call.cbs[1].out.v)
       /\ options = call.pre /\ results = call.preRes
       /\ OptionCall => IsNoneIn(options, call.recv)
                          = IsNoneIn(call.pre, call.recv)
  /\ (CallbackRaised /\ call.ret.kind # "throw") =>
       /\ call.op = "attempt"
       /\ FreshRes /\ isErr(call.ret.ref)
       /\ results[call.ret.ref].value = call.cbs[1].out.v

\* getOrInsertWith on a None was given a producer that raised: the call
\* raised what the producer raised and the receiver is still None.
C30_Witness ==
  /\ call.cls = "None" /\ call.op = "getOrInsertWith"
  /\ call.cbs[1].out.t = "throw"
  /\ call.ret = Rethrow(call.cbs[1].out.v)
  /\ options[call.recv] = NewNone

====
